---- MODULE Spec2Model ----
(***************************************************************************)
(* The iterative constraint-activation driver of pystoned/weakCNLSG.py     *)
(* (class weakCNLSG) together with the cutting-plane rule of the model     *)
(* builder pystoned2/utils/weakCNLSxG1.py, and the construction of that    *)
(* model builder, statement by statement (BuildSpec).                      *)
(*                                                                         *)
(* Numbers are integers in units of 1e-4, so the tolerance 0.0001 of the   *)
(* loop test is Tol = 1 and a score of 1 is positive but not above the     *)
(* tolerance.  Arithmetic is exact.                                        *)
(*                                                                         *)
(* The solver (tools.optimize_model) is outside the repository's shown     *)
(* sources: it is a nondeterministic oracle that reports a status and      *)
(* leaves an assignment in the model.  With status "ok" the assignment     *)
(* satisfies the cutting-plane constraints of the model it was given; with *)
(* status "fail" it is any assignment.                                     *)
(***************************************************************************)
EXTENDS Integers, Sequences, FiniteSets, TLC

\* number of observed units, len(x)
N == 2
\* the solver is called at most this many times on one run, over all optimize
\* calls; the specification of the liveness claim lifts the limit for the
\* loop body and only stops counting
MaxSolves == 4
\* 0.0001, in units of 1e-4
Tol == 1

I == 0 .. (N - 1)

\* the observed data: one input x[i] and one undesirable output b[i] per unit
X == [i \in I |-> i + 1]
B == [i \in I |-> 1 + (i % 2)]

\* the run is constructed without contextual data: z is None
Z == FALSE

RTS == {"VRS", "CRS"}
FUN == {"PROD", "COST"}
CET == {"ADDI", "MULT"}

\* a flag value that is none of the constants of the package
Unknown == "other"

\* the hyperplanes (alpha, beta, delta) the oracle may assign to a unit
Planes ==
    { [a |-> 0,  b |-> 0, d |-> 0],
      [a |-> 0,  b |-> 1, d |-> 0],
      [a |-> -3, b |-> 1, d |-> 1] }

Assignments == [I -> Planes]

\* the candidate matrices sweet.sweet may return
CutActives ==
    { [i \in I |-> [h \in I |-> i = 0]],
      [i \in I |-> [h \in I |-> TRUE]] }

Zeros == [i \in I |-> [j \in I |-> 0]]

VARIABLES
    rts, fun,               \* regime flags
    cutactive,              \* self.cutactive
    active, active2,        \* self.active, self.active2
    activeweak, activeweak2,\* self.activeweak, self.activeweak2
    alpha, beta, delta,     \* fitted parameters of the last solve
    count,                  \* self.count
    optimization_status,    \* self.optimization_status of the run
    model,                  \* the model built last: its kind, its sweet constraints,
                            \* and the status the oracle reported for it
    state,                  \* position of the driver: Unsolved, Iterating, Converged
    conv, convweak,         \* values returned by the two scans of the last loop test
                            \* (convweak = -1: the weak scan was not evaluated)
    ret,                    \* the accessor call being answered and its outcome
    solves,                 \* number of solver calls made on the run
    failed,                 \* history: a solve of the current optimize call reported non-success
    solved_ok,              \* history: an optimize call completed with every solve successful
    cet,                    \* self.cet
    build                   \* the weakCNLSxG1 object under construction: the statement
                            \* reached, what exists of its model, the exception raised

vars == << rts, fun, cutactive, active, active2, activeweak, activeweak2,
           alpha, beta, delta, count, optimization_status, model, state,
           conv, convweak, ret, solves, failed, solved_ok, cet, build >>

-----------------------------------------------------------------------------
(* The violation scanner *)

\* active2[i, j] of the four regimes
ConcavityScore(al, be, de, i, j) ==
    IF rts = "VRS" /\ fun = "PROD"
      THEN al[i] + be[i] * X[i] + de[i] * B[i] - al[j] - be[j] * X[i] - de[j] * B[i]
    ELSE IF rts = "VRS" /\ fun = "COST"
      THEN 0 - al[i] - be[i] * X[i] - de[i] * B[i] + al[j] + be[j] * X[i] + de[j] * B[i]
    ELSE IF rts = "CRS" /\ fun = "PROD"
      THEN be[i] * X[i] + de[i] * B[i] - be[j] * X[i] - de[j] * B[i]
    ELSE 0 - be[i] * X[i] - de[i] * B[i] + be[j] * X[i] + de[j] * B[i]

\* activeweak2[i, j] of the four regimes
WeakScore(al, be, de, i, j) ==
    IF rts = "VRS" /\ fun = "PROD" THEN 0 - al[j] - be[j] * X[i]
    ELSE IF rts = "VRS" /\ fun = "COST" THEN al[j] + be[j] * X[i]
    ELSE IF rts = "CRS" /\ fun = "PROD" THEN 0 - be[j] * X[i]
    ELSE be[j] * X[i]

\* the sub-loop over j: activetmp after columns j .. N-1, entered with acc
RECURSIVE RowMax(_, _, _)
RowMax(row, j, acc) ==
    IF j = N THEN acc
    ELSE RowMax(row, j + 1, IF row[j] > acc THEN row[j] ELSE acc)

\* (as MarkRow, but the row is rebuilt from zero by every scan)
MarkRowReset(row, old, activetmp) ==
    [j \in I |-> IF row[j] >= activetmp /\ activetmp > 0 THEN 1 ELSE 0]

\* (as MarkRow, but only the first column that reaches the row maximum is marked)
MarkRowFirst(row, old, activetmp) ==
    [j \in I |-> IF /\ row[j] >= activetmp /\ activetmp > 0
                    /\ \A k \in I : k < j => row[k] < activetmp
                 THEN 1 ELSE old[j]]

\* (as MarkRow, but without the test that the row maximum is positive)
MarkRowAnyMax(row, old, activetmp) ==
    [j \in I |-> IF row[j] >= activetmp THEN 1 ELSE old[j]]

\* the second sub-loop over j: the row of the active matrix after marking
MarkRow(row, old, activetmp) ==
    [j \in I |-> IF row[j] >= activetmp /\ activetmp > 0 THEN 1 ELSE old[j]]

\* the value the scan returns: activetmp as the loop over i left it
ScanReturn(rowmax) == rowmax[N - 1]

\* one scan over a score matrix: the new active matrix and the returned value
Scan(scores, act) ==
    LET rowmax == [i \in I |-> RowMax(scores[i], 0, 0)]
    IN  [ act |-> [i \in I |-> MarkRow(scores[i], act[i], rowmax[i])],
          ret |-> ScanReturn(rowmax) ]

ConcavityScores(al, be, de) ==
    [i \in I |-> [j \in I |-> ConcavityScore(al, be, de, i, j)]]

WeakScores(al, be, de) ==
    [i \in I |-> [j \in I |-> WeakScore(al, be, de, i, j)]]

-----------------------------------------------------------------------------
(* The model builder and the solve oracle *)

\* (as SweetRule, but only for the pairs with i < h)
SweetRuleUpper(cut, i, h) == IF cut[i][h] THEN (IF i < h THEN TRUE ELSE FALSE) ELSE FALSE

\* (as SweetRule, but without the test for the self-pair)
SweetRuleNoSkip(cut, i, h) == IF cut[i][h] THEN TRUE ELSE FALSE

\* sweet_rule(model, i, h): whether a constraint is returned, not Constraint.Skip
SweetRule(cut, i, h) ==
    IF cut[i][h]
      THEN (IF i = h THEN FALSE ELSE TRUE)
      ELSE FALSE

\* the sweet_rule constraints of a built model, over I x I
SweetConstraints(cut) == { p \in I \X I : SweetRule(cut, p[1], p[2]) }

\* the cutting planes of the re-solved model gated by the concavity active matrix
ActiveRule(act, i, h) == act[i][h] = 1 /\ i # h

\* the cutting planes of the re-solved model gated by the weak-disposability matrix
ActiveWeakRule(actw, i, j) == actw[i][j] = 1

\* an assignment satisfies the cutting planes of the first-pass model
Feasible1(al, be, de) ==
    \A p \in SweetConstraints(cutactive) : ConcavityScore(al, be, de, p[1], p[2]) <= 0

\* an assignment satisfies the cutting planes of the re-solved model
Feasible2(al, be, de) ==
    /\ Feasible1(al, be, de)
    /\ \A i, h \in I : ActiveRule(active, i, h) => ConcavityScore(al, be, de, i, h) <= 0
    /\ \A i, j \in I : ActiveWeakRule(activeweak, i, j) => WeakScore(al, be, de, i, j) <= 0

Alpha(p) == [i \in I |-> p[i].a]
Beta(p)  == [i \in I |-> p[i].b]
Delta(p) == [i \in I |-> p[i].d]

-----------------------------------------------------------------------------
(* The outer iteration driver *)

\* no accessor call is being answered
NoCall == [call |-> "none", out |-> "none"]

\* a counter after += 1; beyond MaxSolves the value is no longer told apart
\* from MaxSolves
Incr(c) == IF c < MaxSolves THEN c + 1 ELSE c

\* (as Exceeds, but a statistic equal to the tolerance also continues the loop)
ExceedsOrEqual(v) == v >= Tol

\* the comparison of the while condition: statistic > 0.0001
Exceeds(v) == v > Tol

\* the while condition: the concavity scan, then, only if that one is within
\* the tolerance, the weak scan; afterwards either the loop body is entered
\* or the run is marked solved
LoopTest(al, be, de) ==
    \E cs \in {ConcavityScores(al, be, de)} :
    \E c \in {Scan(cs, active)} :
        /\ active2' = cs
        /\ active' = c.act
        /\ conv' = c.ret
        /\ IF Exceeds(c.ret)
             THEN /\ UNCHANGED << activeweak, activeweak2, optimization_status >>
                  /\ convweak' = -1
                  /\ state' = "Iterating"
             ELSE \E ws \in {WeakScores(al, be, de)} :
                  \E w \in {Scan(ws, activeweak)} :
                      /\ activeweak2' = ws
                      /\ activeweak' = w.act
                      /\ convweak' = w.ret
                      /\ IF Exceeds(w.ret)
                           THEN /\ state' = "Iterating"
                                /\ UNCHANGED optimization_status
                           ELSE /\ state' = "Converged"
                                /\ optimization_status' = 1

\* the statuses the oracle may report for an assignment: "ok" only when the
\* assignment satisfies the constraints of the model that was solved
Statuses(feasible) == IF feasible THEN {"ok", "fail"} ELSE {"fail"}

\* optimize up to the first evaluation of the while condition
OptimizeStart(sts, p) ==
    /\ state \in {"Unsolved", "Converged"}
    /\ ret = NoCall
    /\ solves < MaxSolves
    /\ solves' = solves + 1
    /\ alpha' = Alpha(p) /\ beta' = Beta(p) /\ delta' = Delta(p)
    /\ count' = 0
    /\ LoopTest(Alpha(p), Beta(p), Delta(p))
    /\ \E st \in sts \cap Statuses(Feasible1(Alpha(p), Beta(p), Delta(p))) :
          /\ model' = [kind |-> "G1", sweet |-> SweetConstraints(cutactive), status |-> st]
          /\ failed' = (st = "fail")
          /\ solved_ok' = (solved_ok \/ (state' = "Converged" /\ st = "ok"))
    /\ UNCHANGED << rts, fun, cutactive, ret, cet, build >>

\* one pass of the loop body and the next evaluation of the while condition
OptimizeIterate(sts, p, limited) ==
    /\ state = "Iterating"
    /\ limited => solves < MaxSolves
    /\ solves' = Incr(solves)
    /\ alpha' = Alpha(p) /\ beta' = Beta(p) /\ delta' = Delta(p)
    /\ count' = Incr(count)
    /\ LoopTest(Alpha(p), Beta(p), Delta(p))
    /\ \E st \in sts \cap Statuses(Feasible2(Alpha(p), Beta(p), Delta(p))) :
          /\ model' = [kind |-> "G2", sweet |-> SweetConstraints(cutactive), status |-> st]
          /\ failed' = (failed \/ st = "fail")
          /\ solved_ok' = (solved_ok \/ (state' = "Converged" /\ ~failed /\ st = "ok"))
    /\ UNCHANGED << rts, fun, cutactive, ret, cet, build >>

-----------------------------------------------------------------------------
(* Accessors *)

Accessors == {"get_alpha", "get_beta", "get_delta", "get_residual", "get_lamda", "get_frontier"}

\* the outcome of an accessor: the assertions it makes, in order
AccessorOutcome(name) ==
    IF optimization_status = 0 THEN "not_optimized"
    ELSE IF name = "get_alpha" /\ rts # "VRS" THEN "no_intercept"
    ELSE IF name = "get_lamda" /\ ~Z THEN "no_contextual_variable"
    ELSE "value"

Get(name) ==
    /\ state \in {"Unsolved", "Converged"}
    /\ ret = NoCall
    /\ ret' = [call |-> name, out |-> AccessorOutcome(name)]
    /\ UNCHANGED << rts, fun, cutactive, active, active2, activeweak, activeweak2,
                    alpha, beta, delta, count, optimization_status, model, state,
                    conv, convweak, solves, failed, solved_ok, cet, build >>

\* get_status returns the flag and asserts nothing
GetStatus ==
    /\ state \in {"Unsolved", "Converged"}
    /\ ret = NoCall
    /\ ret' = [call |-> "get_status", out |-> IF optimization_status = 1 THEN "1" ELSE "0"]
    /\ UNCHANGED << rts, fun, cutactive, active, active2, activeweak, activeweak2,
                    alpha, beta, delta, count, optimization_status, model, state,
                    conv, convweak, solves, failed, solved_ok, cet, build >>

\* the caller takes the answer (the value or the exception) of an accessor call
Return ==
    /\ ret # NoCall
    /\ ret' = NoCall
    /\ UNCHANGED << rts, fun, cutactive, active, active2, activeweak, activeweak2,
                    alpha, beta, delta, count, optimization_status, model, state,
                    conv, convweak, solves, failed, solved_ok, cet, build >>

-----------------------------------------------------------------------------
(* The construction of the model builder, weakCNLSxG1.__init__ *)

\* the cyclic successor of a unit in the model's set I: I.nextw(i)
Nextw(i) == (i + 1) % N

\* the constraint components, in the order __init__ attaches them
Families == << "regression", "log", "afriat", "disposability", "sweet" >>

DecisionVars == {"alpha", "delta", "gamma", "epsilon", "frontier"}

\* before __init__ runs: nothing exists
NotBuilt ==
    [ pc |-> "new", model |-> FALSE, vars |-> {}, objective |-> FALSE,
      attached |-> {}, disposability |-> {}, sweet |-> {}, error |-> "none", at |-> "none" ]

\* what the call self.__<family>_rule() does: it returns a rule, or raises
RuleFactory(f) ==
    IF f = "regression"
      THEN IF cet = "ADDI" THEN (IF rts \in RTS THEN "rule" ELSE "ValueError")
           ELSE IF cet = "MULT" THEN "rule"
           ELSE "ValueError"
    ELSE IF f = "log"
      THEN IF cet = "MULT" /\ rts \in RTS THEN "rule" ELSE "ValueError"
    ELSE IF rts \in RTS THEN "rule" ELSE "ValueError"

\* the index sets a constraint component is declared over
IndexArity(f) == IF f \in {"disposability", "sweet"} THEN 2 ELSE 1

\* the indices a rule takes after the model
RuleArity(f) == IF f = "sweet" THEN 2 ELSE 1

\* what calling the rule on the indices of the component does: Python raises
\* TypeError for a call with more positional arguments than the rule takes,
\* and NameError for the read of __operator when no branch assigned it
RuleCall(f) ==
    IF IndexArity(f) # RuleArity(f) THEN "TypeError"
    ELSE IF f \in {"afriat", "sweet"} /\ fun \notin FUN THEN "NameError"
    ELSE "ok"

\* the constraints a rule of one index emits: one per unit, on unit i and its
\* cyclic successor
PerUnit == { << i, Nextw(i) >> : i \in I }

\* the statement after the component f
After(f) ==
    IF f = "regression" THEN "log"
    ELSE IF f = "log" THEN "afriat"
    ELSE IF f = "afriat" THEN "disposability"
    ELSE IF f = "disposability" THEN "sweet"
    ELSE "built"

Raise(f, e) == [build EXCEPT !.pc = "raised", !.error = e, !.at = f]

DriverVars == << active, active2, activeweak, activeweak2, alpha, beta, delta,
                 count, optimization_status, model, state, conv, convweak, ret,
                 solves, failed, solved_ok >>

\* self.__model__ = ConcreteModel() and its sets I, J, L
NewModel ==
    /\ build.pc = "new"
    /\ build' = [build EXCEPT !.pc = "vars", !.model = TRUE]
    /\ UNCHANGED << rts, fun, cet, cutactive, DriverVars >>

\* the five Var components
CreateVars ==
    /\ build.pc = "vars"
    /\ build' = [build EXCEPT !.pc = "objective", !.vars = DecisionVars]
    /\ UNCHANGED << rts, fun, cet, cutactive, DriverVars >>

\* the Objective component; its rule factory has no branch
AddObjective ==
    /\ build.pc = "objective"
    /\ build' = [build EXCEPT !.pc = "regression", !.objective = TRUE]
    /\ UNCHANGED << rts, fun, cet, cutactive, DriverVars >>

\* one Constraint component: the rule factory is called, then the component
\* is attached to the model, which calls the rule on every index
AddConstraint(f) ==
    /\ build.pc = f
    /\ build' =
         IF f = "log" /\ cet # "MULT"
           THEN [build EXCEPT !.pc = After(f)]
         ELSE IF RuleFactory(f) # "rule"
           THEN Raise(f, RuleFactory(f))
         ELSE IF RuleCall(f) # "ok"
           THEN Raise(f, RuleCall(f))
         ELSE [build EXCEPT !.pc = After(f),
                            !.attached = @ \cup {f},
                            !.disposability = IF f = "disposability" THEN PerUnit ELSE @,
                            !.sweet = IF f = "sweet" THEN SweetConstraints(cutactive) ELSE @]
    /\ UNCHANGED << rts, fun, cet, cutactive, DriverVars >>

-----------------------------------------------------------------------------

Init ==
    /\ rts \in RTS /\ fun \in FUN
    /\ cutactive \in CutActives
    /\ active = Zeros /\ active2 = Zeros
    /\ activeweak = Zeros /\ activeweak2 = Zeros
    /\ alpha = [i \in I |-> 0] /\ beta = [i \in I |-> 0] /\ delta = [i \in I |-> 0]
    /\ count = 0
    /\ optimization_status = 0
    /\ model = [kind |-> "none", sweet |-> {}, status |-> "none"]
    /\ state = "Unsolved"
    /\ conv = 0 /\ convweak = -1
    /\ ret = NoCall
    /\ solves = 0
    /\ failed = FALSE
    /\ solved_ok = FALSE
    /\ cet = "ADDI"
    /\ build = NotBuilt

Start == \E p \in Assignments : OptimizeStart({"ok", "fail"}, p)
Iterate == \E p \in Assignments : OptimizeIterate({"ok", "fail"}, p, TRUE)
Access == \E name \in Accessors : Get(name)

Next == Start \/ Iterate \/ Access \/ GetStatus \/ Return

Spec == Init /\ [][Next]_vars

\* the runs with no limit on the number of passes of the loop body; the body
\* runs whenever the while condition held, as the solver always returns
IterateOn == \E p \in Assignments : OptimizeIterate({"ok", "fail"}, p, FALSE)
NextOn == Start \/ IterateOn \/ Access \/ GetStatus \/ Return
FairSpec == Init /\ [][NextOn]_vars /\ WF_vars(IterateOn)

\* the runs in which the oracle reports success for every solve
StartOk == \E p \in Assignments : OptimizeStart({"ok"}, p)
IterateOk == \E p \in Assignments : OptimizeIterate({"ok"}, p, TRUE)
NextOk == StartOk \/ IterateOk \/ Access \/ GetStatus \/ Return
SpecOk == Init /\ [][NextOk]_vars
IterateOnOk == \E p \in Assignments : OptimizeIterate({"ok"}, p, FALSE)
NextOnOk == StartOk \/ IterateOnOk \/ Access \/ GetStatus \/ Return
FairSpecOk == Init /\ [][NextOnOk]_vars /\ WF_vars(IterateOnOk)

\* additive error, production frontier, variable returns to scale, and a
\* sweet-spot matrix that is true on every off-diagonal pair
AllPairsScenario ==
    /\ cet = "ADDI" /\ fun = "PROD" /\ rts = "VRS"
    /\ \A i, h \in I : i # h => cutactive[i][h]

\* the runs of that one scenario in which every solve succeeds, with one more
\* hyperplane for the oracle: its weak-disposability score exceeds the
\* tolerance at the last unit too
PlanesWide == Planes \cup { [a |-> -4, b |-> 1, d |-> 1] }
InitAllPairs == Init /\ AllPairsScenario
StartWide == \E p \in [I -> PlanesWide] : OptimizeStart({"ok"}, p)
IterateWide == \E p \in [I -> PlanesWide] : OptimizeIterate({"ok"}, p, TRUE)
NextAllPairs == StartWide \/ IterateWide \/ Access \/ GetStatus \/ Return
SpecAllPairs == InitAllPairs /\ [][NextAllPairs]_vars

\* the constructions of a weakCNLSxG1, for every value of the three flags
BuildInit ==
    /\ rts \in RTS \cup {Unknown} /\ fun \in FUN \cup {Unknown} /\ cet \in CET \cup {Unknown}
    /\ cutactive \in CutActives
    /\ active = Zeros /\ active2 = Zeros
    /\ activeweak = Zeros /\ activeweak2 = Zeros
    /\ alpha = [i \in I |-> 0] /\ beta = [i \in I |-> 0] /\ delta = [i \in I |-> 0]
    /\ count = 0
    /\ optimization_status = 0
    /\ model = [kind |-> "none", sweet |-> {}, status |-> "none"]
    /\ state = "Unsolved"
    /\ conv = 0 /\ convweak = -1
    /\ ret = NoCall
    /\ solves = 0
    /\ failed = FALSE
    /\ solved_ok = FALSE
    /\ build = NotBuilt

AddConstraints == \E k \in 1 .. Len(Families) : AddConstraint(Families[k])
BuildNext == NewModel \/ CreateVars \/ AddObjective \/ AddConstraints
BuildSpec == BuildInit /\ [][BuildNext]_vars

-----------------------------------------------------------------------------
(* Properties *)

\* the largest entry of a row, declaratively
MaxOf(row) == CHOOSE v \in {row[j] : j \in I} : \A j \in I : row[j] <= v

\* a step in which the solver was called and the while condition evaluated
Solved == solves' # solves

\* C1: an entry of the concavity active matrix or of the weak-disposability
\* active matrix that is 1 stays 1 in every later step, whatever the
\* operation: later scans, later passes of the loop, later optimize calls.
C1_MonotonicActivation ==
    [][\A i, j \in I : /\ active[i][j] = 1 => active'[i][j] = 1
                       /\ activeweak[i][j] = 1 => activeweak'[i][j] = 1]_vars

\* an entry of each matrix is 1 although the latest scan scored it as no
\* violation: an earlier scan set it and the later scan kept it
C1_Witness ==
    /\ \E i, j \in I : active[i][j] = 1 /\ active2[i][j] <= 0
    /\ \E i, j \in I : activeweak[i][j] = 1 /\ activeweak2[i][j] <= 0 /\ convweak # -1

\* what one scan does to a row: with a positive row maximum exactly the
\* columns that reach it become 1 and the others keep their value; otherwise
\* the row keeps its value
RowUpdate(row, old, new) ==
    IF MaxOf(row) > 0
      THEN \A j \in I : new[j] = (IF row[j] = MaxOf(row) THEN 1 ELSE old[j])
      ELSE new = old

\* C10: every scan changes each row of its active matrix as RowUpdate says
\* (all tied maximizers of a positive row maximum are set, nothing else
\* changes); the weak scan is not run when the concavity statistic already
\* exceeds the tolerance, and then its matrix is untouched.
C10_ScanRowUpdate ==
    [][Solved =>
        /\ \A i \in I : RowUpdate(active2'[i], active[i], active'[i])
        /\ IF convweak' # -1
             THEN \A i \in I : RowUpdate(activeweak2'[i], activeweak[i], activeweak'[i])
             ELSE activeweak' = activeweak]_vars

\* a scan has marked two tied maximizers of one row, and has left another
\* row without a positive score as it was
C10_Witness ==
    /\ convweak # -1
    /\ \E i, j, k \in I :
          /\ j # k
          /\ activeweak2[i][j] = MaxOf(activeweak2[i]) /\ activeweak2[i][k] = MaxOf(activeweak2[i])
          /\ MaxOf(activeweak2[i]) > 0
          /\ activeweak[i][j] = 1 /\ activeweak[i][k] = 1
    /\ \E i \in I : MaxOf(active2[i]) <= 0 /\ \A j \in I : active[i][j] = 0
    /\ \E i, j \in I : active[i][j] = 1

GlobalMax(m) ==
    CHOOSE v \in {0} \cup {m[i][j] : i, j \in I} :
        \A w \in {0} \cup {m[i][j] : i, j \in I} : w <= v

\* C2: the run is marked solved only when no material violation remains for
\* the fitted parameters of the last solve: every concavity score and every
\* weak-disposability score, over all ordered pairs, is at most the tolerance.
C2_SolvedMeansNoViolation ==
    state = "Converged" =>
        \A i, j \in I : /\ ConcavityScore(alpha, beta, delta, i, j) <= Tol
                        /\ WeakScore(alpha, beta, delta, i, j) <= Tol

\* C3: the value a scan returns is the largest row maximum over all rows
\* (0 when no score is positive), for the concavity scan and the weak scan.
C3_ScanReturnsGlobalMax ==
    solves > 0 =>
        /\ conv = GlobalMax(active2)
        /\ convweak # -1 => convweak = GlobalMax(activeweak2)

\* C4: once a solve of the current optimize call has reported non-success the
\* driver has stopped in Failed: it is neither iterating nor converged.
C4_FailureStopsRun ==
    failed => state \notin {"Iterating", "Converged"}

\* C5: an evaluation of the while condition that continues the loop has set
\* at least one entry of an active matrix that was 0 before.
C5_ContinuingPassAddsPair ==
    [][(Solved /\ state' = "Iterating") =>
        (active' # active \/ activeweak' # activeweak)]_vars

\* C6: every optimize call leaves the Iterating state.
C6_Terminates == (state = "Iterating") ~> (state # "Iterating")

\* the statistic of a loop test: the larger of the values the scans returned
Stat == IF conv >= convweak THEN conv ELSE convweak

\* C7 as stated: a pass of the loop body ends with a statistic strictly
\* smaller than the one that started it (required here only of the passes of
\* an optimize call in which every solve so far reported success).
C7_StrictDecrease ==
    [][(Solved /\ state = "Iterating" /\ ~failed') => Stat' < Stat]_vars

\* C7 as amended: the loop continues only with a statistic above the
\* tolerance, and the run is converged only with both statistics computed
\* and at most the tolerance; successive statistics are not ordered.
C7_ContinuesOnlyAboveTol ==
    /\ state = "Iterating" => Stat > Tol
    /\ state = "Converged" => (conv <= Tol /\ convweak # -1 /\ convweak <= Tol)

\* after a pass of the loop body, with every solve successful, the loop
\* continues again
C7_Witness ==
    state = "Iterating" /\ count >= 1 /\ Stat > Tol /\ ~failed

\* C8: an accessor called while no optimize call has completed with every
\* solve successful answers with the not-yet-solved error.
C8_AccessorFailsBeforeSuccess ==
    (ret.call \in Accessors /\ ~solved_ok) => ret.out = "not_optimized"

\* the flags are not all constants of the package
Unrecognized == rts \notin RTS \/ fun \notin FUN \/ cet \notin CET

\* C11: a construction with an unrecognized flag creates no decision variable
\* (and no model component), and when it has raised, the exception is the
\* configuration error, ValueError.
C11_ConfigErrorBeforeVariables ==
    Unrecognized =>
        /\ build.vars = {} /\ ~build.objective /\ build.attached = {}
        /\ build.pc = "raised" => build.error = "ValueError"

\* the construction has dealt with the weak-disposability component
DisposabilityDone ==
    \/ build.pc \in {"sweet", "built"}
    \/ build.pc = "raised" /\ build.at = "disposability"

\* C14: once the construction has dealt with the elementary weak-disposability
\* component, the model holds exactly one such constraint per unit i, N in
\* total, each on unit i and its cyclic successor (i + 1) mod N.
C14_OneDisposabilityPerUnit ==
    DisposabilityDone =>
        /\ build.pc # "raised"
        /\ build.disposability = { << i, (i + 1) % N >> : i \in I }
        /\ Cardinality(build.disposability) = N

\* C13: after every evaluation of the while condition both scans have run on
\* the parameters of the latest solve: both score matrices are those of the
\* current parameters and the weak scan has returned a value.
C13_BothScansEachTest ==
    solves > 0 =>
        /\ active2 = ConcavityScores(alpha, beta, delta)
        /\ convweak # -1
        /\ activeweak2 = WeakScores(alpha, beta, delta)

\* C15: in every regime the concavity score of a self-pair is 0 and the
\* diagonal of the concavity active matrix is all zero, in every state of the
\* run.
C15_DiagonalStaysZero ==
    \A i \in I : active2[i][i] = 0 /\ active[i][i] = 0

\* a concavity scan has marked an entry of a row and left the diagonal entry
\* of that row at 0, while the weak scan has marked a diagonal entry of its
\* own matrix
C15_Witness ==
    /\ \E i, j \in I : i # j /\ active[i][j] = 1 /\ active[i][i] = 0
    /\ \E i \in I : activeweak[i][i] = 1

\* the latest solve was the first pass of an optimize call, and it succeeded
FirstPassSolved == model.kind = "G1" /\ model.status = "ok"

====
